---- MODULE Spec2Model ----
(***************************************************************************)
(* A model of the BrickMap tree engine of src/lib/BrickMapMixin.js.        *)
(*                                                                         *)
(* Representation.                                                         *)
(*  - A path string is the sequence of its segments, i.e. the value of     *)
(*    path.split('/'):  ""  is <<"">>,  "/"  is <<"","">>,  "a/b" is       *)
(*    <<"a","b">>.  This is a bijection between strings and non-empty      *)
(*    sequences of '/'-free strings.                                       *)
(*  - The object graph rooted at this.header is a function from locations  *)
(*    (the sequence of item names leading from header to a node, <<>> for  *)
(*    header itself) to the node's own fields.  node.items is the set of   *)
(*    locations one name longer; hasItems / hasLinks say whether the       *)
(*    object carries an `items` / a `hashLinks` property at all.           *)
(*                                                                         *)
(* The command-line parser of src/lib/CommandHandler.js is modelled at the *)
(* end of the operations: its state is the registry the prototype holds.   *)
(***************************************************************************)
EXTENDS Integers, Sequences, FiniteSets, TLC

VARIABLES
    header,   \* this.header of the BrickMap under study
    last,     \* the last call made: its name, its path argument, its error
    steps,    \* the number of calls made so far
    other,    \* a second BrickMap, made by clone() or by load() of a brick
    baseNames, \* CommandHandler.prototype.baseNames: the aliases filled in so far
    handler   \* the CommandHandler constructed last, or the error it threw

vars == <<header, last, steps, other, baseNames, handler>>

\* Bound of the model: the number of calls made on one BrickMap.
MaxSteps == 3

\* Inputs the operations are called with.
PathInputs == { <<"a">>, <<"b">>, <<"a", "b">> }
RootInputs == { <<"">>, <<"", "">> }
Timestamps == {"t1"}

NoKey == [kind |-> "absent", type |-> "", data |-> <<>>]
BufferKey == [kind |-> "buffer", type |-> "", data |-> <<7>>]
BrickA == [checkSum |-> "c1", hashLink |-> "h1", size |-> 0, encryptionKey |-> NoKey]
BrickB == [checkSum |-> "c2", hashLink |-> "h2", size |-> 5, encryptionKey |-> NoKey]
BrickK == [checkSum |-> "c3", hashLink |-> "h3", size |-> 0, encryptionKey |-> BufferKey]
BrickInputs == { BrickA, BrickB }

NotFound == <<"<undefined>">>
EmptyPath == <<"">>
RootPath == <<"", "">>

-----------------------------------------------------------------------------
\* Small helpers on metadata objects (maps from key to value).

WithoutKey(m, k) == [x \in (DOMAIN m) \ {k} |-> m[x]]
WithKey(m, k, v) == [x \in (DOMAIN m) \cup {k} |-> IF x = k THEN v ELSE m[x]]
EmptyObject == [x \in {} |-> ""]

IsPrefix(p, l) == Len(p) <= Len(l) /\ SubSeq(l, 1, Len(p)) = p
IsStrictPrefix(p, l) == Len(p) < Len(l) /\ SubSeq(l, 1, Len(p)) = p
ItemNames(h, loc) == { l[Len(l)] : l \in { x \in DOMAIN h : Len(x) = Len(loc) + 1 /\ IsPrefix(loc, x) } }

-----------------------------------------------------------------------------
\* pskPath.normalize (swarmutils): empty segments collapse; "" stays "",
\* a path made only of separators is the root "/".
Normalize(p) ==
    LET segs == SelectSeq(p, LAMBDA s : s # "")
    IN  IF segs # <<>> THEN segs
        ELSE IF p = EmptyPath THEN EmptyPath ELSE RootPath

Dirname(p) == IF Len(p) = 1 THEN EmptyPath ELSE SubSeq(p, 1, Len(p) - 1)
Basename(p) == p[Len(p)]

\* initialize(header, options) with no header given.
Initialize(preventTimestamp, ts) ==
    (<<>> :> [hasItems |-> TRUE, hasLinks |-> FALSE, hashLinks |-> <<>>,
              metadata |-> IF preventTimestamp THEN EmptyObject
                           ELSE WithKey(EmptyObject, "createdAt", ts)])

\* updateTimeMetadata(target, prop): stamps only when header has a createdAt.
UpdateTimeMetadata(h, loc, prop, ts) ==
    IF "createdAt" \in DOMAIN h[<<>>].metadata
    THEN [h EXCEPT ![loc].metadata = WithKey(@, prop, ts)]
    ELSE h

DeleteDeletedAt(h, loc) == [h EXCEPT ![loc].metadata = WithoutKey(@, "deletedAt")]

CreateFileNode(h, parent, name, ts) ==
    LET loc == Append(parent, name)
        h1 == [l \in (DOMAIN h) \cup {loc} |->
                 IF l = loc THEN [hasItems |-> FALSE, hasLinks |-> TRUE,
                                  hashLinks |-> <<>>, metadata |-> EmptyObject]
                 ELSE h[l]]
    IN  UpdateTimeMetadata(h1, loc, "createdAt", ts)

CreateDirectoryNode(h, parent, name, ts) ==
    LET loc == Append(parent, name)
        h1 == [l \in (DOMAIN h) \cup {loc} |->
                 IF l = loc THEN [hasItems |-> TRUE, hasLinks |-> FALSE,
                                  hashLinks |-> <<>>, metadata |-> EmptyObject]
                 ELSE h[l]]
    IN  UpdateTimeMetadata(h1, loc, "createdAt", ts)

NodeIsDeleted(h, loc) == "deletedAt" \in DOMAIN h[loc].metadata
NodeIsDirectory(h, loc) == h[loc].hasItems

\* The while loop and the trailing part of createNodesFromPath.  The result
\* is the tree, the location of the returned node and the error raised, if
\* any: reading parentNode.items[nodeName] of a node without `items` is a
\* TypeError, raised after the mutations of the earlier iterations.
RECURSIVE CreateNodesLoop(_, _, _, _, _)
CreateNodesLoop(h, parent, segs, trailingNodeType, ts) ==
    IF ~h[parent].hasItems
    THEN [h |-> h, loc |-> NotFound, err |-> "TypeError"]
    ELSE
    LET skip == Head(segs) = ""
        nodeName == IF ~skip THEN Head(segs)
                    ELSE IF Len(segs) >= 2 THEN segs[2] ELSE "undefined"
        rest == IF ~skip THEN Tail(segs)
                ELSE IF Len(segs) >= 2 THEN SubSeq(segs, 3, Len(segs)) ELSE <<>>
        child == Append(parent, nodeName)
        h1 == IF child \in DOMAIN h THEN DeleteDeletedAt(h, child) ELSE h
        h2 == DeleteDeletedAt(h1, parent)
    IN  IF rest = <<>>
        THEN [h |-> IF child \in DOMAIN h2 THEN h2
                    ELSE IF trailingNodeType = "child"
                         THEN CreateFileNode(h2, parent, nodeName, ts)
                         ELSE CreateDirectoryNode(h2, parent, nodeName, ts),
              loc |-> child, err |-> "none"]
        ELSE CreateNodesLoop(
                 IF child \in DOMAIN h2 THEN h2
                 ELSE CreateDirectoryNode(h2, parent, nodeName, ts),
                 child, rest, trailingNodeType, ts)

CreateNodesFromPath(h, path, trailingNodeType, ts) ==
    CreateNodesLoop(h, <<>>, path, trailingNodeType, ts)

\* deleteNode / truncateNode
DropItems(h, loc) ==
    [l \in { x \in DOMAIN h : ~IsStrictPrefix(loc, x) } |->
        IF l = loc THEN [h[l] EXCEPT !.hasItems = TRUE] ELSE h[l]]

\* a delete that takes the entry out of its parent's items
DeleteNodeRemovesEntry(h, loc, ts) ==
    IF loc = <<>> THEN h
    ELSE [l \in { x \in DOMAIN h : ~IsPrefix(loc, x) } |-> h[l]]

DeleteNode(h, loc, ts) ==
    LET h1 == UpdateTimeMetadata(h, loc, "deletedAt", ts)
    IN  IF NodeIsDirectory(h1, loc) THEN DropItems(h1, loc)
        ELSE [h1 EXCEPT ![loc].hasLinks = TRUE, ![loc].hashLinks = <<>>]

TruncateNode(h, loc, ts) ==
    LET h1 == UpdateTimeMetadata(DeleteDeletedAt(h, loc), loc, "updatedAt", ts)
        h2 == IF NodeIsDirectory(h1, loc) THEN DropItems(h1, loc) ELSE h1
    IN  [h2 EXCEPT ![loc].hasLinks = TRUE, ![loc].hashLinks = <<>>]

\* navigate(toPath): the deepest parent; a segment naming a node that is not
\* a directory is stepped over without descending.
RECURSIVE NavigateFrom(_, _, _)
NavigateFrom(h, parent, segs) ==
    IF segs = <<>> THEN parent
    ELSE IF Head(segs) = "" THEN NavigateFrom(h, parent, Tail(segs))
    ELSE IF Append(parent, Head(segs)) \notin DOMAIN h THEN NotFound
    ELSE IF NodeIsDirectory(h, Append(parent, Head(segs)))
         THEN NavigateFrom(h, Append(parent, Head(segs)), Tail(segs))
         ELSE NavigateFrom(h, parent, Tail(segs))

Navigate(h, toPath) == NavigateFrom(h, <<>>, toPath)

GetDeepestNode(h, path0) ==
    LET path == Normalize(path0)
    IN  IF path = RootPath THEN <<>>
        ELSE LET parentNode == Navigate(h, Dirname(path))
             IN  IF parentNode = NotFound THEN NotFound
                 ELSE IF Append(parentNode, Basename(path)) \in DOMAIN h
                      THEN Append(parentNode, Basename(path))
                      ELSE NotFound

-----------------------------------------------------------------------------
\* JSON text.  JSON.stringify writes a byte buffer as the object its toJSON
\* gives, {type: <marker>, data: [bytes]}; JSON.parse without a reviver
\* leaves that object as it is.
BufferMarker == "$$.Buffer"
RevivedMarker == "$$.Buffer"

BufferToJSON(k) ==
    IF k.kind = "buffer" THEN [kind |-> "object", type |-> BufferMarker, data |-> k.data]
    ELSE k

\* JSON.parse(JSON.stringify(brickRef))
JsonBrick(b) == [b EXCEPT !.key = BufferToJSON(@), !.encryptionKey = BufferToJSON(@)]
JsonLinks(links) == [i \in 1..Len(links) |-> JsonBrick(links[i])]
\* JSON.parse(JSON.stringify(node)), the node's own fields
JsonNode(n) == [n EXCEPT !.hashLinks = JsonLinks(@)]

\* JSON.stringify(this.header): the text, held as the value it denotes.
JsonStringify(h) == [l \in DOMAIN h |-> JsonNode(h[l])]

\* Buffer.from(data): every element is taken modulo 256.
BufferFrom(data) ==
    [kind |-> "buffer", type |-> "", data |-> [i \in 1..Len(data) |-> data[i] % 256]]

\* a reviver that hands every value back as parsed
ReviverKeepsObject(key, value) == value

\* the reviver of load (lines 657-674); an object of the model has the two
\* fields type and data, data an array
Reviver(key, value) ==
    IF key # "key" THEN value
    ELSE IF value.kind # "object" THEN value
    ELSE IF value.type # RevivedMarker THEN value
    ELSE BufferFrom(value.data)

ReviveBrick(b) ==
    [b EXCEPT !.key = Reviver("key", @), !.encryptionKey = Reviver("encryptionKey", @)]

\* JSON.parse(text, reviver)
JsonParseRevived(text) ==
    [l \in DOMAIN text |->
        [text[l] EXCEPT !.hashLinks = [i \in 1..Len(@) |-> ReviveBrick(@[i])]]]

\* toBrick(): a Brick carrying the key identity and the header's JSON text
\* (Buffer.from(text) and rawData.toString() are inverse on the text).
ToBrick(h, keySSI) == [keySSI |-> keySSI, rawData |-> JsonStringify(h)]

\* load() of a map whose header is a Brick, getRawData having succeeded
LoadFromBrick(brick) == JsonParseRevived(brick.rawData)

\* load() of a map whose header is a string
LoadFromString(text) == JsonParseRevived(text)

\* clone(): a new instance on JSON.stringify(header), given the key, loaded
Clone(h, keySSI) == [header |-> LoadFromString(JsonStringify(h)), keySSI |-> keySSI]

\* getState()
GetState(h) == JsonStringify(h)

\* The forms of header load() tells apart.  A header is [form, wellFormed,
\* tree]: for the forms "brick", "buffer" and "string", tree is the value
\* the JSON text denotes and wellFormed says whether JSON.parse accepts the
\* text; for the form "object", tree is the header itself.
HeaderForms == { "brick", "buffer", "string", "object" }
HeaderOf(form, wellFormed, tree) == [form |-> form, wellFormed |-> wellFormed, tree |-> tree]

\* load(callback): the header afterwards, how many times callback was
\* called, the error handed to it and the exception load let out, if any.
\* JSON.parse throws a SyntaxError on malformed text, before the assignment
\* to this.header and before callback().
Load(hd, fetched) ==
    IF hd.form = "brick"
    THEN IF ~fetched
         THEN [header |-> hd, callbacks |-> 1, err |-> "FailedToGetRawData", thrown |-> "none"]
         ELSE IF ~hd.wellFormed
         THEN [header |-> hd, callbacks |-> 0, err |-> "none", thrown |-> "SyntaxError"]
         ELSE [header |-> HeaderOf("object", TRUE, JsonParseRevived(hd.tree)),
               callbacks |-> 1, err |-> "none", thrown |-> "none"]
    ELSE LET text == IF hd.form = "buffer" THEN [hd EXCEPT !.form = "string"] ELSE hd
         IN  IF text.form = "string"
             THEN IF ~text.wellFormed
                  THEN [header |-> text, callbacks |-> 0, err |-> "none", thrown |-> "SyntaxError"]
                  ELSE [header |-> HeaderOf("object", TRUE, JsonParseRevived(text.tree)),
                        callbacks |-> 1, err |-> "none", thrown |-> "none"]
             ELSE [header |-> text, callbacks |-> 1, err |-> "none", thrown |-> "none"]

\* the value getBrickEncryptionKeySSI returns: a key as a brick reference
\* holds it, or the identifier of the template key
Identifier(keySSI) == [kind |-> "identifier", type |-> keySSI, data |-> <<>>]

\* getBrickEncryptionKeySSI(brickMeta); given says whether brickMeta was passed
GetBrickEncryptionKeySSI(given, brickMeta, templateKeySSI) ==
    IF ~given THEN Identifier(templateKeySSI)
    ELSE brickMeta.key

-----------------------------------------------------------------------------
\* The public operations.  Each gives the tree after the call and the error
\* the call raised ("none" when it returned).

Raise(h, e) == [h |-> h, err |-> e]
Return(h) == [h |-> h, err |-> "none"]

\* the brickObj built by add (lines 355-365)
BrickObj(brick) ==
    [checkSum |-> brick.checkSum, hashLink |-> brick.hashLink,
     size |-> brick.size, key |-> brick.encryptionKey, encryptionKey |-> NoKey]

\* a brick descriptor stored as it was given (replaceFirstBrick/replaceLastBrick)
RawBrick(brick) ==
    [checkSum |-> brick.checkSum, hashLink |-> brick.hashLink,
     size |-> brick.size, key |-> NoKey, encryptionKey |-> brick.encryptionKey]

AppendBrick(h, loc, brickObj, ts) ==
    LET h1 == UpdateTimeMetadata(h, loc, "updatedAt", ts)
    IN  IF ~h1[loc].hasLinks THEN Raise(h1, "TypeError")
        ELSE Return([h1 EXCEPT ![loc].hashLinks = Append(@, brickObj)])

Add(h, filePath0, brick, ts) ==
    LET filePath == Normalize(filePath0)
    IN  IF filePath = EmptyPath THEN Raise(h, "EmptyPath")
        ELSE LET r == CreateNodesFromPath(h, filePath, "child", ts)
             IN  IF r.err # "none" THEN Raise(r.h, r.err)
                 ELSE AppendBrick(DeleteDeletedAt(r.h, r.loc), r.loc, BrickObj(brick), ts)

\* getNodeFromPath: [h, loc, err]
GetNodeFromPath(h, filePath0, ts) ==
    LET filePath == Normalize(filePath0)
    IN  IF filePath = EmptyPath THEN [h |-> h, loc |-> NotFound, err |-> "EmptyPath"]
        ELSE LET r == CreateNodesFromPath(h, filePath, "child", ts)
             IN  IF r.err # "none" THEN r
                 ELSE [r EXCEPT !.h = DeleteDeletedAt(r.h, r.loc)]

ReplaceBrickAt(h, filePath, brick, ts, first) ==
    LET r == GetNodeFromPath(h, filePath, ts)
    IN  IF r.err # "none" THEN Raise(r.h, r.err)
        ELSE LET h1 == UpdateTimeMetadata(r.h, r.loc, "updatedAt", ts)
                 n == Len(h1[r.loc].hashLinks)
             IN  IF ~h1[r.loc].hasLinks THEN Raise(h1, "TypeError")
                 ELSE IF n > 0
                      THEN Return([h1 EXCEPT ![r.loc].hashLinks[IF first THEN 1 ELSE n] = RawBrick(brick)])
                      ELSE Return(h1)

ReplaceFirstBrick(h, filePath, brick, ts) == ReplaceBrickAt(h, filePath, brick, ts, TRUE)
ReplaceLastBrick(h, filePath, brick, ts) == ReplaceBrickAt(h, filePath, brick, ts, FALSE)

DeleteWithoutTombstoneCheck(h, barPath, ts) ==
    LET childNode == GetDeepestNode(h, Normalize(barPath))
    IN  IF childNode = NotFound THEN Return(h)
        ELSE Return(DeleteNode(h, childNode, ts))

Delete(h, barPath, ts) ==
    LET childNode == GetDeepestNode(h, Normalize(barPath))
    IN  IF childNode = NotFound THEN Return(h)
        ELSE IF NodeIsDeleted(h, childNode) THEN Return(h)
        ELSE Return(DeleteNode(h, childNode, ts))

CreateNode(h, barPath0, trailingNodeType, ts) ==
    LET barPath == Normalize(barPath0)
        dirName == Basename(barPath)
        dirPath == Dirname(barPath)
        parentDir == GetDeepestNode(h, dirPath)
    IN  IF barPath = RootPath THEN Raise(h, "InvalidPath")
        ELSE IF dirName = "" THEN Raise(h, "MissingFolderName")
        ELSE IF dirPath # EmptyPath /\ parentDir # NotFound /\ ~NodeIsDirectory(h, parentDir)
             THEN Raise(h, "FolderInFile")
        ELSE IF /\ dirPath # EmptyPath /\ parentDir # NotFound
                /\ Append(parentDir, dirName) \in DOMAIN h
                /\ trailingNodeType = "parent"
             THEN Raise(h, "AlreadyExists")
        ELSE LET r == CreateNodesFromPath(h, barPath, trailingNodeType, ts)
             IN  [h |-> r.h, err |-> r.err]

CreateFolder(h, barPath, ts) == CreateNode(h, barPath, "parent", ts)
CreateFile(h, barPath, ts) == CreateNode(h, barPath, "child", ts)

IsEmpty(h, filePath) ==
    LET node == GetDeepestNode(h, filePath)
    IN  IF node = NotFound THEN TRUE
        ELSE IF NodeIsDirectory(h, node) THEN FALSE   \* !Object.keys(..) of an array
        ELSE Len(h[node].hashLinks) = 0

EmptyList(h, filePath, ts) ==
    LET node == GetDeepestNode(h, filePath)
    IN  IF node = NotFound THEN Raise(h, "NotFound")
        ELSE Return(TruncateNode(h, node, ts))

\* for (const data of bricks) this.add(path, data): the first error ends the loop
RECURSIVE AppendBricksToFile(_, _, _, _)
AppendBricksToFile(h, path, bricks, ts) ==
    IF bricks = <<>> THEN Return(h)
    ELSE LET r == Add(h, path, Head(bricks), ts)
         IN  IF r.err # "none" THEN r
             ELSE AppendBricksToFile(r.h, path, Tail(bricks), ts)

AddFileEntryWithoutTruncate(h, path, bricks, ts) ==
    AppendBricksToFile(h, path, bricks, ts)

AddFileEntry(h, path, bricks, ts) ==
    IF ~IsEmpty(h, path)
    THEN LET r == EmptyList(h, path, ts)
         IN  IF r.err # "none" THEN r ELSE AppendBricksToFile(r.h, path, bricks, ts)
    ELSE AppendBricksToFile(h, path, bricks, ts)

FileExists(h, path) ==
    LET node == GetDeepestNode(h, path)
    IN  node # NotFound /\ ~NodeIsDeleted(h, node)

FileDeleted(h, path) ==
    LET node == GetDeepestNode(h, path)
    IN  node # NotFound /\ NodeIsDeleted(h, node)

\* dstNode.items = JSON.parse(JSON.stringify(srcNode.items)): the subtree
\* below src, as it is after dst was materialized, re-rooted at dst.
Graft(h, src, dst) ==
    LET below == { l \in DOMAIN h : IsStrictPrefix(src, l) }
        moved(l) == dst \o SubSeq(l, Len(src) + 1, Len(l))
        kept == { l \in DOMAIN h : ~IsStrictPrefix(dst, l) }
        new == { moved(l) : l \in below }
    IN  [x \in kept \cup new |->
            IF x \in new THEN JsonNode(h[CHOOSE l \in below : moved(l) = x])
            ELSE IF x = dst THEN [h[x] EXCEPT !.hasItems = TRUE]
            ELSE h[x]]

Copy(h, srcPath, dstPath, ts) ==
    LET srcNode == GetDeepestNode(h, srcPath)
    IN  IF srcNode = NotFound THEN Raise(h, "NotFound")
        ELSE LET r == CreateNodesFromPath(h, dstPath,
                         IF NodeIsDirectory(h, srcNode) THEN "parent" ELSE "child", ts)
             IN  IF r.err # "none" THEN Raise(r.h, r.err)
                 ELSE IF NodeIsDirectory(r.h, srcNode)
                      THEN Return(Graft(r.h, srcNode, r.loc))
                      ELSE Return([r.h EXCEPT ![r.loc].hasLinks = TRUE,
                                              ![r.loc].hashLinks = JsonLinks(r.h[srcNode].hashLinks)])

SetMetadata(h, path, metadata) ==
    LET node == GetDeepestNode(h, path)
    IN  IF node = NotFound THEN Raise(h, "NotFound")
        ELSE Return([h EXCEPT ![node].metadata = metadata])

UpdateMetadata(h, path, key, value) ==
    LET node == GetDeepestNode(h, path)
    IN  IF node = NotFound THEN Raise(h, "NotFound")
        ELSE Return([h EXCEPT ![node].metadata = WithKey(@, key, value)])

-----------------------------------------------------------------------------
\* The query operations.  A result is [err, val]; val is meaningful when
\* err = "none".

\* pskPath.join(currentPath, itemName)
JoinPath(currentPath, itemName) ==
    Normalize(IF currentPath = EmptyPath THEN <<itemName>> ELSE Append(currentPath, itemName))

\* findFiles(nodes, currentPath) of getFileList, nodes being the items of loc
RECURSIVE FindFiles(_, _, _, _)
FindFiles(h, loc, currentPath, recursive) ==
    UNION { LET item == Append(loc, itemName)
                itemPath == JoinPath(currentPath, itemName)
            IN  IF NodeIsDirectory(h, item) /\ recursive
                THEN FindFiles(h, item, itemPath, recursive)
                ELSE IF ~NodeIsDeleted(h, item) /\ ~NodeIsDirectory(h, item)
                     THEN { itemPath }
                     ELSE {}
            : itemName \in ItemNames(h, loc) }

GetFileList(h, folderBarPath, recursive) ==
    LET node == GetDeepestNode(h, folderBarPath)
    IN  IF node = NotFound THEN {}
        ELSE FindFiles(h, node, EmptyPath, recursive)

GetBricksMeta(h, filePath) ==
    LET fileNode == GetDeepestNode(h, filePath)
    IN  IF fileNode = NotFound THEN [err |-> "NotFound", val |-> <<>>]
        ELSE IF NodeIsDirectory(h, fileNode) THEN [err |-> "IsDirectory", val |-> <<>>]
        ELSE IF NodeIsDeleted(h, fileNode) THEN [err |-> "NotFound", val |-> <<>>]
        ELSE [err |-> "none", val |-> h[fileNode].hashLinks]

GetHashList(h, filePath) ==
    LET fileNode == GetDeepestNode(h, filePath)
    IN  IF filePath = EmptyPath THEN [err |-> "EmptyPath", val |-> <<>>]
        ELSE IF fileNode = NotFound THEN [err |-> "NotFound", val |-> <<>>]
        ELSE IF NodeIsDirectory(h, fileNode) THEN [err |-> "IsDirectory", val |-> <<>>]
        ELSE [err |-> "none",
              val |-> [i \in 1..Len(h[fileNode].hashLinks) |-> h[fileNode].hashLinks[i].hashLink]]

\* stat(path): nodeIsDirectory(node) reads node.items, a TypeError when
\* the lookup gave undefined
Stat(h, path) ==
    LET node == GetDeepestNode(h, path)
    IN  IF node = NotFound THEN [err |-> "TypeError", val |-> ""]
        ELSE IF NodeIsDirectory(h, node) THEN [err |-> "none", val |-> "directory"]
        ELSE [err |-> "none", val |-> "file"]

\* findFolders(nodes, currentPath) of getFolderList, nodes being the items of loc
RECURSIVE FindFolders(_, _, _, _)
FindFolders(h, loc, currentPath, recursive) ==
    UNION { LET item == Append(loc, itemName)
                itemPath == JoinPath(currentPath, itemName)
            IN  IF ~NodeIsDirectory(h, item) \/ NodeIsDeleted(h, item) THEN {}
                ELSE IF recursive
                     THEN { itemPath } \cup FindFolders(h, item, itemPath, recursive)
                     ELSE { itemPath }
            : itemName \in ItemNames(h, loc) }

GetFolderList(h, barPath, recursive) ==
    LET node == GetDeepestNode(h, barPath)
    IN  IF node = NotFound THEN {}
        ELSE FindFolders(h, node, EmptyPath, recursive)

\* getMetadata(path): the node's metadata object itself; every node of the
\* tree has one
GetMetadata(h, path) ==
    LET node == GetDeepestNode(h, path)
    IN  IF node = NotFound THEN [err |-> "NotFound", val |-> EmptyObject]
        ELSE [err |-> "none", val |-> h[node].metadata]

-----------------------------------------------------------------------------
\* The state machine: one BrickMap instance and its single-threaded caller.

BrickSeqInputs == { <<>>, <<BrickA>>, <<BrickB, BrickA>> }
MetadataInputs == { EmptyObject, WithKey(EmptyObject, "deletedAt", "t0") }
MetadataKeyInputs == { "deletedAt" }
MetadataValueInputs == { "t0" }
MetadataPathInputs == { <<"a">> }

\* One synchronous call on the map: it runs to completion, and an error
\* raised part-way leaves the mutations made before it.
Call(op, path, r) ==
    /\ steps < MaxSteps
    /\ steps' = steps + 1
    /\ header' = r.h
    /\ last' = [op |-> op, path |-> path, err |-> r.err]
    /\ UNCHANGED <<other, baseNames, handler>>

\* no CommandHandler has been constructed
NoHandler == [outcome |-> "none", command |-> "", flags |-> <<>>, parameters |-> <<>>, argv |-> <<>>]

NoOther == [present |-> FALSE, header |-> Initialize(TRUE, "t1"), keySSI |-> ""]

Init ==
    /\ \E preventTimestamp \in BOOLEAN, ts \in Timestamps :
          header = Initialize(preventTimestamp, ts)
    /\ last = [op |-> "initialize", path |-> EmptyPath, err |-> "none"]
    /\ steps = 0
    /\ other = NoOther
    /\ baseNames = {}
    /\ handler = NoHandler

AddCall ==
    \E p \in PathInputs, b \in BrickInputs, ts \in Timestamps :
        /\ Call("add", p, Add(header, p, b, ts))

AddFileEntryCall ==
    \E p \in PathInputs, bs \in BrickSeqInputs, ts \in Timestamps :
        /\ Call("addFileEntry", p, AddFileEntry(header, p, bs, ts))

AppendBricksToFileCall ==
    \E p \in PathInputs, bs \in BrickSeqInputs, ts \in Timestamps :
        /\ Call("appendBricksToFile", p, AppendBricksToFile(header, p, bs, ts))

ReplaceFirstBrickCall ==
    \E p \in PathInputs, b \in BrickInputs, ts \in Timestamps :
        /\ Call("replaceFirstBrick", p, ReplaceFirstBrick(header, p, b, ts))

ReplaceLastBrickCall ==
    \E p \in PathInputs, b \in BrickInputs, ts \in Timestamps :
        /\ Call("replaceLastBrick", p, ReplaceLastBrick(header, p, b, ts))

DeleteCall ==
    \E p \in PathInputs \cup RootInputs, ts \in Timestamps :
        /\ Call("delete", p, Delete(header, p, ts))

EmptyListCall ==
    \E p \in PathInputs \cup RootInputs, ts \in Timestamps :
        /\ Call("emptyList", p, EmptyList(header, p, ts))

CopyCall ==
    \E src \in PathInputs, dst \in PathInputs, ts \in Timestamps :
        /\ Call("copy", dst, Copy(header, src, dst, ts))

CreateFolderCall ==
    \E p \in PathInputs, ts \in Timestamps :
        /\ Call("createFolder", p, CreateFolder(header, p, ts))

CreateFileCall ==
    \E p \in PathInputs, ts \in Timestamps :
        /\ Call("createFile", p, CreateFile(header, p, ts))

SetMetadataCall ==
    \E p \in MetadataPathInputs, m \in MetadataInputs :
        /\ Call("setMetadata", p, SetMetadata(header, p, m))

UpdateMetadataCall ==
    \E p \in MetadataPathInputs, k \in MetadataKeyInputs, v \in MetadataValueInputs :
        /\ Call("updateMetadata", p, UpdateMetadata(header, p, k, v))

Next ==
    \/ AddCall
    \/ AddFileEntryCall
    \/ AppendBricksToFileCall
    \/ ReplaceFirstBrickCall
    \/ ReplaceLastBrickCall
    \/ DeleteCall
    \/ EmptyListCall
    \/ CopyCall
    \/ CreateFolderCall
    \/ CreateFileCall
    \/ SetMetadataCall
    \/ UpdateMetadataCall

Spec == Init /\ [][Next]_vars

-----------------------------------------------------------------------------
\* The state machine of serialization: a map whose bricks carry byte keys,
\* serialized and loaded into a second map, or cloned; calls then go to
\* either map.

KeyBrickInputs == { BrickA, BrickK }
KeyPathInputs == { <<"a">>, <<"b">> }
TemplateKeySSI == "templateKeySSI"

KeyAddCall ==
    \E p \in KeyPathInputs, b \in KeyBrickInputs, ts \in Timestamps :
        /\ Call("add", p, Add(header, p, b, ts))

KeyReplaceFirstBrickCall ==
    \E p \in KeyPathInputs, b \in KeyBrickInputs, ts \in Timestamps :
        /\ Call("replaceFirstBrick", p, ReplaceFirstBrick(header, p, b, ts))

KeyCopyCall ==
    \E src \in KeyPathInputs, dst \in KeyPathInputs, ts \in Timestamps :
        /\ Call("copy", dst, Copy(header, src, dst, ts))

KeyDeleteCall ==
    \E p \in KeyPathInputs, ts \in Timestamps :
        /\ Call("delete", p, Delete(header, p, ts))

\* toBrick(), then a new map on that brick and its load(); getRawData may fail
ToBrickLoadCall ==
    \E fetched \in BOOLEAN :
        /\ steps < MaxSteps
        /\ steps' = steps + 1
        /\ other' = IF fetched
                    THEN [present |-> TRUE,
                          header |-> LoadFromBrick(ToBrick(header, TemplateKeySSI)),
                          keySSI |-> TemplateKeySSI]
                    ELSE NoOther
        /\ last' = [op |-> "load", path |-> EmptyPath,
                    err |-> IF fetched THEN "none" ELSE "FailedToGetRawData"]
        /\ UNCHANGED <<header, baseNames, handler>>

CloneCall ==
    /\ steps < MaxSteps
    /\ steps' = steps + 1
    /\ other' = [present |-> TRUE,
                 header |-> Clone(header, TemplateKeySSI).header,
                 keySSI |-> Clone(header, TemplateKeySSI).keySSI]
    /\ last' = [op |-> "clone", path |-> EmptyPath, err |-> "none"]
    /\ UNCHANGED <<header, baseNames, handler>>

\* a call on the second map
OtherCall(op, path, r) ==
    /\ other.present
    /\ steps < MaxSteps
    /\ steps' = steps + 1
    /\ other' = [other EXCEPT !.header = r.h]
    /\ last' = [op |-> op, path |-> path, err |-> r.err]
    /\ UNCHANGED <<header, baseNames, handler>>

OtherAddCall ==
    \E p \in KeyPathInputs, b \in KeyBrickInputs, ts \in Timestamps :
        /\ OtherCall("other.add", p, Add(other.header, p, b, ts))

OtherDeleteCall ==
    \E p \in KeyPathInputs, ts \in Timestamps :
        /\ OtherCall("other.delete", p, Delete(other.header, p, ts))

NextLoad ==
    \/ KeyAddCall
    \/ KeyReplaceFirstBrickCall
    \/ KeyCopyCall
    \/ KeyDeleteCall
    \/ ToBrickLoadCall
    \/ CloneCall
    \/ OtherAddCall
    \/ OtherDeleteCall

SpecLoad == Init /\ [][NextLoad]_vars

------------------------------------------------------------------------------
\* The read-only calls among the mutating ones.  Each of them looks its
\* node up with getDeepestNode and assigns nothing; what it returns is a
\* value, and a failure is an exception out of the same lookup.

Queries ==
    { "fileExists", "fileDeleted", "isEmpty", "stat", "getBricksMeta", "getHashList",
      "getFileList", "getFolderList", "getMetadata", "getState" }

\* the [err, val] of a query, val being what the caller gets
QueryResult(h, op, path, recursive) ==
    CASE op = "fileExists" -> [err |-> "none", val |-> FileExists(h, path)]
      [] op = "fileDeleted" -> [err |-> "none", val |-> FileDeleted(h, path)]
      [] op = "isEmpty" -> [err |-> "none", val |-> IsEmpty(h, path)]
      [] op = "stat" -> Stat(h, path)
      [] op = "getBricksMeta" -> GetBricksMeta(h, path)
      [] op = "getHashList" -> GetHashList(h, path)
      [] op = "getFileList" -> [err |-> "none", val |-> GetFileList(h, path, recursive)]
      [] op = "getFolderList" -> [err |-> "none", val |-> GetFolderList(h, path, recursive)]
      [] op = "getMetadata" -> GetMetadata(h, path)
      [] op = "getState" -> [err |-> "none", val |-> GetState(h)]

\* a lookup that materializes its path, as getNodeFromPath does
QueryThroughGetNodeFromPath(h, op, path, recursive) ==
    [h |-> GetNodeFromPath(h, path, "t1").h, err |-> QueryResult(h, op, path, recursive).err]

\* the map and the outcome after a query
Query(h, op, path, recursive) ==
    [h |-> h, err |-> QueryResult(h, op, path, recursive).err]

QueryCall ==
    \E op \in Queries, p \in PathInputs \cup RootInputs, recursive \in BOOLEAN :
        /\ Call(op, p, Query(header, op, p, recursive))

NextQuery ==
    \/ AddCall
    \/ CreateFolderCall
    \/ DeleteCall
    \/ QueryCall

SpecQuery == Init /\ [][NextQuery]_vars

-----------------------------------------------------------------------------
\* The command-line parser, src/lib/CommandHandler.js.
\*
\* An alias such as -c or --create is its number of leading dashes and the
\* rest of its text; a cluster of short flags such as -czf is the sequence
\* of its letters.

Alias(dashes, name) == [dashes |-> dashes, name |-> name]
Short(letter) == Alias(1, letter)
Long(name) == Alias(2, name)
Undefined == Alias(0, "undefined")

\* the text of an alias, and alias.slice(1)
Text(alias) ==
    IF alias.dashes = 2 THEN "--" \o alias.name
    ELSE IF alias.dashes = 1 THEN "-" \o alias.name
    ELSE alias.name
Slice1(alias) == Text(Alias(alias.dashes - 1, alias.name))

\* a checkFunction argument of registerFlag: undefined, or createFunction(args)
NoCheckFunction == [defined |-> FALSE, args |-> {}]
CreateFunction(args) == [defined |-> TRUE, args |-> args]

RegisterFlag(aliases, typeName, checkFunction, numberOfParameters) ==
    [aliases |-> aliases, typeName |-> typeName, checkFunction |-> checkFunction,
     numberOfParameters |-> numberOfParameters]

\* the registerFlag calls made when the module is loaded, in order
Registrations ==
    << RegisterFlag(<<Short("A"), Long("catenate"), Long("concatenate")>>, "String", NoCheckFunction, 1),
       RegisterFlag(<<Short("c"), Long("create")>>, "String",
                    CreateFunction({Short("z"), Short("v"), Short("f"), Short("B"), Short("A")}), 1),
       RegisterFlag(<<Short("d"), Long("diff"), Long("compare")>>, "String", NoCheckFunction, 1),
       RegisterFlag(<<Long("delete")>>, "String", NoCheckFunction, 1),
       RegisterFlag(<<Short("r"), Long("append")>>, "String",
                    CreateFunction({Short("v"), Short("f"), Short("B"), Short("A")}), 1),
       RegisterFlag(<<Short("t"), Long("list")>>, "String",
                    CreateFunction({Short("f"), Short("v"), Short("z"), Short("B"), Short("A")}), 0),
       RegisterFlag(<<Short("u"), Long("update")>>, "String",
                    CreateFunction({Short("f"), Short("v"), Short("B"), Short("A")}), 1),
       RegisterFlag(<<Short("x"), Long("extract"), Long("get")>>, "String",
                    CreateFunction({Short("v"), Short("f"), Short("B"), Short("A")}), 1),
       RegisterFlag(<<Short("C"), Long("directory")>>, "String", NoCheckFunction, 1),
       RegisterFlag(<<Short("f"), Long("file")>>, "String",
                    CreateFunction({Short("x"), Short("v"), Short("B"), Short("A")}), 1),
       RegisterFlag(<<Short("j"), Long("bzip2")>>, "boolean", NoCheckFunction, 0),
       RegisterFlag(<<Short("J"), Long("xz")>>, "boolean", NoCheckFunction, 0),
       RegisterFlag(<<Short("p"), Long("preserve-permissions")>>, "String", NoCheckFunction, 1),
       RegisterFlag(<<Short("z"), Long("gzip")>>, "boolean",
                    CreateFunction({Short("x"), Short("f"), Short("c"), Short("t"), Short("v"),
                                    Short("B"), Short("A")}), 0),
       RegisterFlag(<<Short("v"), Long("verbose")>>, "boolean",
                    CreateFunction({Short("f"), Short("c"), Short("u"), Short("r"), Short("t"),
                                    Short("z"), Short("B"), Short("A")}), 0),
       RegisterFlag(<<Short("h"), Long("help")>>, "boolean", NoCheckFunction, 0),
       RegisterFlag(<<Short("A"), Long("setAdapter")>>, "String", CreateFunction({Short("B")}), 1),
       RegisterFlag(<<Short("B"), Long("setBufferSize")>>, "String", CreateFunction({Short("A")}), 1) >>

AliasesOf(i) == { Registrations[i].aliases[k] : k \in 1..Len(Registrations[i].aliases) }

AllAliases == UNION { AliasesOf(i) : i \in 1..Len(Registrations) }

\* CommandHandler.prototype.flags: the registration made last wins
FlagsMap ==
    [alias \in AllAliases |->
        LET is == { i \in 1..Len(Registrations) : alias \in AliasesOf(i) }
        IN  Registrations[CHOOSE i \in is : \A j \in is : j <= i]]
IsRegistered(alias) == alias \in AllAliases
Flags(alias) == FlagsMap[alias]

\* fillForEveryArg(args, map): the aliases of every group of aliasList whose
\* first alias is one of args; the same aliases get their entry of baseNames
GoodBind(args) ==
    UNION { AliasesOf(i) : i \in { j \in 1..Len(Registrations) : Registrations[j].aliases[1] \in args } }

\* flags[alias][1](), for the flags whose checkFunction is a function
CheckFunctionResult ==
    [alias \in { a \in AllAliases : FlagsMap[a].checkFunction.defined } |->
        GoodBind(FlagsMap[alias].checkFunction.args)]

\* baseNames[alias], for an alias that has been filled in
BaseNamesMap ==
    [alias \in AllAliases |->
        Registrations[CHOOSE i \in 1..Len(Registrations) : alias \in AliasesOf(i)].aliases[1]]
BaseName(alias) == BaseNamesMap[alias]

\* The arguments after argv[1]: a cluster of short flags (-czf), a long flag
\* with or without =value (--file=a.bar, --gzip), or a positional parameter.
ShortArg(letters) == [kind |-> "short", letters |-> letters, name |-> "", hasValue |-> FALSE, value |-> ""]
LongArg(name) == [kind |-> "long", letters |-> <<>>, name |-> name, hasValue |-> FALSE, value |-> ""]
LongArgWithValue(name, value) == [kind |-> "long", letters |-> <<>>, name |-> name, hasValue |-> TRUE, value |-> value]
Parameter(value) == [kind |-> "param", letters |-> <<>>, name |-> "", hasValue |-> FALSE, value |-> value]

\* an element of flagList: the text of a cluster, or of a long flag
FlagOf(arg) == [long |-> arg.kind = "long", letters |-> arg.letters, name |-> arg.name]

\* __situationalConfigurator(value.split('=')); acc is [flagList,
\* parametersList, err].  The instance's diskAdapter, bufferSize and
\* storageProvider are not part of the model.
SituationalConfigurator(acc, arg) ==
    IF ~arg.hasValue THEN acc
    ELSE IF ~IsRegistered(Long(arg.name)) THEN [acc EXCEPT !.err = "TypeError"]
    ELSE IF Flags(Long(arg.name)).typeName = "String"
         THEN [acc EXCEPT !.flagList = Append(@, FlagOf(arg)),
                          !.parametersList = Append(@, arg.value)]
         ELSE [acc EXCEPT !.err = "TooManyParameters"]

\* __helperConstructList(value)
HelperConstructList(acc, arg) ==
    IF arg.kind = "long" THEN SituationalConfigurator(acc, arg)
    ELSE IF arg.kind = "short" THEN [acc EXCEPT !.flagList = Append(@, FlagOf(arg))]
    ELSE [acc EXCEPT !.parametersList = Append(@, arg.value)]

\* __constructList(): argv.forEach, ended by the first exception
RECURSIVE ConstructList(_, _)
ConstructList(acc, args) ==
    IF args = <<>> \/ acc.err # "none" THEN acc
    ELSE ConstructList(HelperConstructList(acc, Head(args)), Tail(args))

\* __checkerConcatCommand(currFlag, nextFlag): [result, number, baseNames],
\* result being "number", "false", or "TypeError" when flags[currFlag] is
\* undefined or its checkFunction is not a function.  Calling the
\* checkFunction fills baseNames.
CheckerConcatCommand(currFlag, nextFlag, bn) ==
    IF ~IsRegistered(currFlag) \/ ~Flags(currFlag).checkFunction.defined
    THEN [result |-> "TypeError", number |-> 0, baseNames |-> bn]
    ELSE LET goodBind == CheckFunctionResult[currFlag]
             filled == bn \cup goodBind
         IN  IF nextFlag \notin goodBind /\ nextFlag # Undefined
             THEN [result |-> "false", number |-> 0, baseNames |-> filled]
             ELSE [result |-> "number",
                   number |-> IF Flags(currFlag).typeName = "String"
                              THEN Flags(currFlag).numberOfParameters ELSE 0,
                   baseNames |-> filled]

\* __parseNext(flagList[index + 1])
ParseNext(flagList, index) ==
    IF index + 1 > Len(flagList) THEN Undefined
    ELSE IF flagList[index + 1].long THEN Long(flagList[index + 1].name)
    ELSE Short(flagList[index + 1].letters[1])

\* __checkConcatCommand(flag, '-', nextFlag), from the letter at index on;
\* AddNumber is what it does with the number of one letter
RECURSIVE CheckConcatCommand(_, _, _, _, _)
RECURSIVE AddNumber(_, _, _, _, _)
AddNumber(r, letters, index, newNext, expectedNumber) ==
    IF r.result # "number" THEN r
    ELSE IF index < Len(letters)
         THEN CheckConcatCommand(letters, index + 1, newNext, r.baseNames,
                                 expectedNumber + r.number)
         ELSE [r EXCEPT !.number = expectedNumber + r.number]

CheckConcatCommand(letters, index, newNext, bn, expectedNumber) ==
    AddNumber(CheckerConcatCommand(Short(letters[index]),
                                   IF index < Len(letters) THEN Short(letters[index + 1])
                                   ELSE newNext, bn),
              letters, index, newNext, expectedNumber)

\* __helperCheckIfCommandIsValid(flagList, index)
HelperCheckIfCommandIsValid(flagList, index, bn) ==
    IF ~flagList[index].long
    THEN CheckConcatCommand(flagList[index].letters, 1, ParseNext(flagList, index), bn, 0)
    ELSE CheckerConcatCommand(Long(flagList[index].name), ParseNext(flagList, index), bn)

\* the for loop of __checkIfCommandIsValid: [err, number, baseNames];
\* AddExpected is what it does with the number of one flag
RECURSIVE CheckFlags(_, _, _, _)
RECURSIVE AddExpected(_, _, _, _)
AddExpected(r, flagList, index, expectedNumberOfParameters) ==
    IF r.result = "TypeError"
    THEN [err |-> "TypeError", number |-> 0, baseNames |-> r.baseNames]
    ELSE IF r.result = "false"
    THEN [err |-> "WrongFlagOrder", number |-> 0, baseNames |-> r.baseNames]
    ELSE CheckFlags(flagList, index + 1, r.baseNames, expectedNumberOfParameters + r.number)

CheckFlags(flagList, index, bn, expectedNumberOfParameters) ==
    IF index > Len(flagList)
    THEN [err |-> "none", number |-> expectedNumberOfParameters, baseNames |-> bn]
    ELSE AddExpected(HelperCheckIfCommandIsValid(flagList, index, bn),
                     flagList, index, expectedNumberOfParameters)

\* __checkIfCommandIsValid(flagList, parametersList): [err, baseNames];
\* CompareExpected is its comparison after the loop
CompareExpected(r, parametersList) ==
    IF r.err # "none" THEN [err |-> r.err, baseNames |-> r.baseNames]
    ELSE IF r.number > Len(parametersList)
    THEN [err |-> "TooFewParameters", baseNames |-> r.baseNames]
    ELSE [err |-> "none", baseNames |-> r.baseNames]

CheckIfCommandIsValid(flagList, parametersList, bn) ==
    IF Len(flagList) = 0 THEN [err |-> "NoFlags", baseNames |-> bn]
    ELSE CompareExpected(CheckFlags(flagList, 1, bn, 0), parametersList)

RECURSIVE Concat(_)
Concat(letters) == IF letters = <<>> THEN "" ELSE Head(letters) \o Concat(Tail(letters))

\* __constructCommand(): [err, command]; base[flag] of a long flag that was
\* never filled in is undefined, and its slice a TypeError
RECURSIVE ConstructCommand(_, _, _)
ConstructCommand(flagList, bn, actualCommand) ==
    IF flagList = <<>> THEN [err |-> "none", command |-> actualCommand]
    ELSE LET flag == Head(flagList)
         IN  IF flag.long
             THEN IF Long(flag.name) \notin bn
                  THEN [err |-> "TypeError", command |-> actualCommand]
                  ELSE ConstructCommand(Tail(flagList), bn,
                                        actualCommand \o Slice1(BaseName(Long(flag.name))))
             ELSE ConstructCommand(Tail(flagList), bn, actualCommand \o Concat(flag.letters))

\* new CommandHandler(argv), args being argv from index 2 on: the instance,
\* or the error thrown in place of one, and baseNames afterwards.
\* __createConfigurator calls ArchiveConfigurator only and is taken to
\* succeed.  Parse is __parse after __constructList, Constructed the instance
\* after __constructCommand.
Thrown(err) == [outcome |-> err, command |-> "", flags |-> <<>>, parameters |-> <<>>, argv |-> <<>>]

Constructed(args, lists, bn, cmd) ==
    IF cmd.err # "none" THEN [handler |-> Thrown(cmd.err), baseNames |-> bn]
    ELSE [handler |-> [outcome |-> "ok", command |-> cmd.command,
                       flags |-> lists.flagList, parameters |-> lists.parametersList,
                       argv |-> args],
          baseNames |-> bn]

Checked(args, lists, valid) ==
    IF valid.err # "none" THEN [handler |-> Thrown(valid.err), baseNames |-> valid.baseNames]
    ELSE Constructed(args, lists, valid.baseNames,
                     ConstructCommand(lists.flagList, valid.baseNames, ""))

Parse(args, lists, bn) ==
    IF lists.err # "none" THEN [handler |-> Thrown(lists.err), baseNames |-> bn]
    ELSE Checked(args, lists, CheckIfCommandIsValid(lists.flagList, lists.parametersList, bn))

CommandHandler(args, bn) ==
    Parse(args, ConstructList([flagList |-> <<>>, parametersList |-> <<>>, err |-> "none"], args), bn)

\* The state machine of the parser: command lines are parsed one after the
\* other in one process, which keeps the prototype's baseNames.
MaxArgs == 3
MaxCommands == 2
ArgInputs ==
    { ShortArg(<<"c", "z", "f">>), ShortArg(<<"x", "f">>), ShortArg(<<"h">>),
      LongArg("gzip"), LongArgWithValue("gzip", "9"), LongArgWithValue("file", "a.bar"),
      Parameter("a.bar"), Parameter("dir") }
ArgvInputs == UNION { [1..n -> ArgInputs] : n \in 1..MaxArgs }

ConstructCall ==
    /\ steps < MaxCommands
    /\ \E args \in ArgvInputs :
          \E made \in {CommandHandler(args, baseNames)} :
              /\ handler' = made.handler
              /\ baseNames' = made.baseNames
    /\ steps' = steps + 1
    /\ UNCHANGED <<header, last, other>>

NextCommand == ConstructCall

SpecCommand == Init /\ [][NextCommand]_vars

-----------------------------------------------------------------------------
\* Vocabulary of the properties.

Now == CHOOSE ts \in Timestamps : TRUE
\* a time after every time of Timestamps
Later == "t2"
AllPaths == PathInputs \cup RootInputs

\* The location a well-formed path denotes in the data model.
LocOf(path) == IF Normalize(path) \in RootInputs THEN <<>> ELSE Normalize(path)

IsFileNode(h, loc) == loc \in DOMAIN h /\ h[loc].hasLinks /\ ~h[loc].hasItems
IsDirectoryNode(h, loc) == loc \in DOMAIN h /\ h[loc].hasItems /\ ~h[loc].hasLinks
LiveFileAt(h, path) == IsFileNode(h, LocOf(path)) /\ ~NodeIsDeleted(h, LocOf(path))

\* The paths, from the root, of the File nodes that are not tombstoned.
LiveFiles(h) == { l \in DOMAIN h : IsFileNode(h, l) /\ ~NodeIsDeleted(h, l) }

BrickObjs(bs) == [i \in 1..Len(bs) |-> BrickObj(bs[i])]
HashLinksOf(links) == [i \in 1..Len(links) |-> links[i].hashLink]

\* A node with everything below it, and its content alone (its brick
\* references and the nodes below it), by path relative to the node.
Subtree(h, loc) ==
    { <<l, h[l]>> : l \in { x \in DOMAIN h : IsPrefix(loc, x) } }
Content(h, loc) ==
    [hashLinks |-> h[loc].hashLinks,
     items |-> { <<SubSeq(x, Len(loc) + 1, Len(x)), h[x]>> :
                    x \in { y \in DOMAIN h : IsStrictPrefix(loc, y) } }]

\* The lookup of path q ends at the location q denotes, or nowhere.
ExactLookup(h, q) == GetDeepestNode(h, q) \in { NotFound, LocOf(q) }

\* The trees the mutating calls on path q give.
MutationsAt(h, q, b) ==
    << Add(h, q, b, Now).h, Delete(h, q, Now).h, EmptyList(h, q, Now).h,
       ReplaceFirstBrick(h, q, b, Now).h, AddFileEntry(h, q, <<b>>, Now).h >>

-----------------------------------------------------------------------------
\* C1: for every path p naming a present, non-tombstoned file, however the
\* map was initialized: after delete(p) fileExists(p) is false,
\* fileDeleted(p) is true and getFileList of the root does not list p;
\* after a following add(p, brick) fileExists(p) is true and
\* fileDeleted(p) is false.
C1_DeleteThenAdd ==
    \A p \in PathInputs, b \in BrickInputs :
        LiveFileAt(header, p) =>
            LET d == Delete(header, p, Now)
                a == Add(d.h, p, b, Now)
            IN  /\ ~FileExists(d.h, p)
                /\ FileDeleted(d.h, p)
                /\ Normalize(p) \notin GetFileList(d.h, RootPath, TRUE)
                /\ a.err = "none"
                /\ FileExists(a.h, p)
                /\ ~FileDeleted(a.h, p)

\* C2: in every reachable state a node whose metadata has deletedAt has
\* empty content: no items, no brick references.
C2_TombstonedNodesAreEmpty ==
    \A l \in DOMAIN header :
        NodeIsDeleted(header, l) =>
            /\ ItemNames(header, l) = {}
            /\ header[l].hashLinks = <<>>

\* C4: for every file path p holding at least one brick: after delete(p)
\* getHashList(p) fails with NotFound; after a following createFile(p)
\* fileExists(p) is true and getBricksMeta(p) returns the empty sequence.
C4_DeletedFileHashListNotFound ==
    \A p \in PathInputs :
        (LiveFileAt(header, p) /\ Len(header[LocOf(p)].hashLinks) >= 1) =>
            LET d == Delete(header, p, Now)
                c == CreateFile(d.h, p, Now)
            IN  /\ GetHashList(d.h, p).err = "NotFound"
                /\ c.err = "none"
                /\ FileExists(c.h, p)
                /\ GetBricksMeta(c.h, p) = [err |-> "none", val |-> <<>>]

\* C3 as claimed: for every file path p and every brick sequence bs, after
\* addFileEntry(p, bs) both getBricksMeta(p) and getHashList(p) give exactly
\* bs, whatever the file held; after appendBricksToFile(p, bs) they give
\* the previous sequence followed by bs.
C3_AsClaimed ==
    \A p \in PathInputs, bs \in BrickSeqInputs :
        IsFileNode(header, LocOf(p)) =>
            LET prev == header[LocOf(p)].hashLinks
                e == AddFileEntry(header, p, bs, Now)
                a == AppendBricksToFile(header, p, bs, Now)
            IN  /\ e.err = "none"
                /\ GetBricksMeta(e.h, p) = [err |-> "none", val |-> BrickObjs(bs)]
                /\ GetHashList(e.h, p) = [err |-> "none", val |-> HashLinksOf(BrickObjs(bs))]
                /\ a.err = "none"
                /\ GetBricksMeta(a.h, p) = [err |-> "none", val |-> prev \o BrickObjs(bs)]
                /\ GetHashList(a.h, p) = [err |-> "none", val |-> HashLinksOf(prev \o BrickObjs(bs))]

\* C3 as amended: the same, read by getHashList in every case and by
\* getBricksMeta in every case but one: a tombstoned file given the empty
\* sequence stays tombstoned, and getBricksMeta fails with NotFound.
C3_FileEntryReplacesAppendAppends ==
    \A p \in PathInputs, bs \in BrickSeqInputs :
        IsFileNode(header, LocOf(p)) =>
            LET prev == header[LocOf(p)].hashLinks
                dead == NodeIsDeleted(header, LocOf(p))
                e == AddFileEntry(header, p, bs, Now)
                a == AppendBricksToFile(header, p, bs, Now)
            IN  /\ e.err = "none"
                /\ GetHashList(e.h, p) = [err |-> "none", val |-> HashLinksOf(BrickObjs(bs))]
                /\ GetBricksMeta(e.h, p) =
                       IF dead /\ bs = <<>> /\ prev = <<>> THEN [err |-> "NotFound", val |-> <<>>]
                       ELSE [err |-> "none", val |-> BrickObjs(bs)]
                /\ a.err = "none"
                /\ GetHashList(a.h, p) = [err |-> "none", val |-> HashLinksOf(prev \o BrickObjs(bs))]
                /\ GetBricksMeta(a.h, p) =
                       IF dead /\ bs = <<>> THEN [err |-> "NotFound", val |-> <<>>]
                       ELSE [err |-> "none", val |-> prev \o BrickObjs(bs)]

\* an append has just put <<BrickB, BrickA>> behind BrickA, and a file entry
\* would replace the three by two
C3_Witness ==
    /\ last.op = "appendBricksToFile"
    /\ last.err = "none"
    /\ IsFileNode(header, LocOf(last.path))
    /\ header[LocOf(last.path)].hashLinks = BrickObjs(<<BrickA, BrickB, BrickA>>)
    /\ GetBricksMeta(AddFileEntry(header, last.path, <<BrickB, BrickA>>, Now).h, last.path).val
           = BrickObjs(<<BrickB, BrickA>>)

\* C5: after copy(src, dst) succeeds, src and dst lying apart (neither path
\* leads through the other), the destination has the kind of the source and
\* the content the source had at copy time, and later mutations under dst
\* (on paths whose lookup is exact) leave the subtree at src unchanged, and
\* conversely.
C5_CopyIsFaithfulAndIndependent ==
    \A src \in PathInputs, dst \in PathInputs :
        LET s == LocOf(src)
            c == Copy(header, src, dst, Now)
            d == LocOf(dst)
        IN  (s \in DOMAIN header /\ ~IsPrefix(s, d) /\ ~IsPrefix(d, s) /\ c.err = "none") =>
                /\ d \in DOMAIN c.h
                /\ c.h[d].hasItems = header[s].hasItems
                /\ c.h[d].hasLinks = header[s].hasLinks
                /\ Content(c.h, d) = Content(header, s)
                /\ \A q \in PathInputs, b \in BrickInputs :
                      /\ (IsPrefix(d, LocOf(q)) /\ ExactLookup(c.h, q)) =>
                            \A i \in 1..5 : Subtree(MutationsAt(c.h, q, b)[i], s) = Subtree(c.h, s)
                      /\ (IsPrefix(s, LocOf(q)) /\ ExactLookup(c.h, q)) =>
                            \A i \in 1..5 : Subtree(MutationsAt(c.h, q, b)[i], d) = Subtree(c.h, d)

\* C6: in every reachable state, toBrick() loaded into a new map gives a
\* header whose getState() is that of the original, and every key held as
\* raw bytes under a brick reference's `key` comes back as the same bytes.
C6_SerializeLoadRoundTrip ==
    LET loaded == LoadFromBrick(ToBrick(header, TemplateKeySSI))
    IN  /\ GetState(loaded) = GetState(header)
        /\ \A l \in DOMAIN header : \A i \in 1..Len(header[l].hashLinks) :
               header[l].hashLinks[i].key.kind = "buffer" =>
                   loaded[l].hashLinks[i].key = header[l].hashLinks[i].key

\* a load has just given a second map holding a byte key of the first
C6_Witness ==
    /\ last.op = "load"
    /\ last.err = "none"
    /\ other.present
    /\ GetState(other.header) = GetState(header)
    /\ \E l \in DOMAIN header : \E i \in 1..Len(header[l].hashLinks) :
           /\ header[l].hashLinks[i].key = BufferKey
           /\ other.header[l].hashLinks[i].key = BufferKey

\* C7: clone() gives a map whose header equals the source's header at clone
\* time and whose key identity is the source's; afterwards no call on
\* either map changes the other's tree.
C7_CloneEqualsSourceAndIsIndependent ==
    [][ /\ (last'.op = "clone" /\ last'.err = "none") =>
               (other'.header = header' /\ other'.keySSI = TemplateKeySSI)
        /\ (other.present /\ last'.op \notin {"clone", "load"}) =>
               (header' = header \/ other'.header = other.header) ]_vars

\* C8: getDeepestNode("") and getDeepestNode("/") both give header, and
\* getFileList of either lists every non-tombstoned file of the tree.
C8_BothRootFormsResolveToHeader ==
    \A r \in RootInputs :
        /\ GetDeepestNode(header, r) = <<>>
        /\ GetFileList(header, r, TRUE) = LiveFiles(header)

\* C9: no delete and no emptyList with a root path sets deletedAt on header
\* or clears header.items.
C9_RootIsNeverDeleted ==
    \A r \in RootInputs :
        LET d == Delete(header, r, Now)
            e == EmptyList(header, r, Now)
        IN  /\ NodeIsDeleted(d.h, <<>>) = NodeIsDeleted(header, <<>>)
            /\ ItemNames(d.h, <<>>) = ItemNames(header, <<>>)
            /\ NodeIsDeleted(e.h, <<>>) = NodeIsDeleted(header, <<>>)
            /\ ItemNames(e.h, <<>>) = ItemNames(header, <<>>)

\* C10: delete(p) on a missing or already tombstoned node leaves the whole
\* tree unchanged (the existing deletedAt value included), and
\* delete(p); delete(p), the second one later, gives the same tree as one
\* delete(p).
C10_DeleteIdempotent ==
    \A p \in AllPaths, ts \in Timestamps :
        LET node == GetDeepestNode(header, p)
            once == Delete(header, p, ts)
            twice == Delete(once.h, p, Later)
        IN  /\ (node = NotFound \/ NodeIsDeleted(header, node)) => once.h = header
            /\ once.err = "none" /\ twice.err = "none"
            /\ twice.h = once.h

\* delete has just been called on a node tombstoned before, through its
\* metadata, and the node keeps the deletedAt it had
C10_Witness ==
    /\ last.op = "delete"
    /\ last.err = "none"
    /\ GetDeepestNode(header, last.path) # NotFound
    /\ NodeIsDeleted(header, GetDeepestNode(header, last.path))
    /\ header[GetDeepestNode(header, last.path)].metadata["deletedAt"] \in MetadataValueInputs

\* C11: createNodesFromPath succeeds and returns a node for every
\* well-formed non-empty path in every reachable state, also when a proper
\* prefix of the path names a File.
C11_MaterializationAlwaysSucceeds ==
    \A p \in PathInputs, trailingNodeType \in {"child", "parent"} :
        LET r == CreateNodesFromPath(header, Normalize(p), trailingNodeType, Now)
        IN  /\ r.err = "none"
            /\ r.loc \in DOMAIN r.h

\* C12: every mutating operation given a target path that normalizes to
\* the empty path fails with EmptyPath and leaves the tree unchanged.
C12_EmptyPathRejected ==
    \A b \in BrickInputs, bs \in BrickSeqInputs :
        LET calls == << Add(header, EmptyPath, b, Now),
                        AddFileEntry(header, EmptyPath, bs, Now),
                        AppendBricksToFile(header, EmptyPath, bs, Now),
                        ReplaceFirstBrick(header, EmptyPath, b, Now),
                        ReplaceLastBrick(header, EmptyPath, b, Now),
                        Delete(header, EmptyPath, Now),
                        EmptyList(header, EmptyPath, Now),
                        CreateFolder(header, EmptyPath, Now),
                        CreateFile(header, EmptyPath, Now) >>
        IN  /\ \A i \in 1..9 : calls[i].err = "EmptyPath" /\ calls[i].h = header
            /\ \A src \in PathInputs :
                   GetDeepestNode(header, src) # NotFound =>
                       /\ Copy(header, src, EmptyPath, Now).err = "EmptyPath"
                       /\ Copy(header, src, EmptyPath, Now).h = header

\* The non-tombstoned File nodes below loc, by their paths from the root.
LiveFilesUnder(h, loc) == { l \in LiveFiles(h) : IsStrictPrefix(loc, l) }

\* C13: for every directory path p, getFileList(p, true) is exactly the set
\* of the paths from the root of the non-tombstoned File nodes below p.
C13_FileListGivesFullPaths ==
    \A p \in PathInputs \cup {RootPath} :
        (IsDirectoryNode(header, LocOf(p)) /\ GetDeepestNode(header, p) = LocOf(p)) =>
            GetFileList(header, p, TRUE) = LiveFilesUnder(header, LocOf(p))

\* C14: createFolder(p) fails, leaving the tree unchanged, whenever p is
\* occupied by a File (at any depth) and whenever the immediate parent of p
\* is a File; when neither holds it does not fail with one of these errors.
C14_CreateFolderConflicts ==
    \A p \in PathInputs :
        LET r == CreateFolder(header, p, Now)
            occupied == IsFileNode(header, LocOf(p))
            inFile == Len(LocOf(p)) >= 2 /\ IsFileNode(header, SubSeq(LocOf(p), 1, Len(LocOf(p)) - 1))
        IN  /\ (occupied \/ inFile) => (r.err # "none" /\ r.h = header)
            /\ ~(occupied \/ inFile) => r.err \notin {"FolderInFile", "AlreadyExists"}

\* C15: getBrickEncryptionKeySSI(brickMeta) gives the brick reference's
\* own key when it has one and the identifier of the template key in every
\* other case (no argument, or a reference without a key); never an absent
\* value.
C15_BrickKeyOrTemplateIdentifier ==
    /\ GetBrickEncryptionKeySSI(FALSE, BrickObj(BrickA), TemplateKeySSI) = Identifier(TemplateKeySSI)
    /\ \A l \in DOMAIN header : \A i \in 1..Len(header[l].hashLinks) :
           LET brickMeta == header[l].hashLinks[i]
               k == GetBrickEncryptionKeySSI(TRUE, brickMeta, TemplateKeySSI)
           IN  /\ brickMeta.key.kind # "absent" => k = brickMeta.key
               /\ brickMeta.key.kind = "absent" => k = Identifier(TemplateKeySSI)
               /\ k.kind # "absent"

\* C16: for every form of header and every outcome of fetching and
\* parsing, load calls its continuation exactly once, with an error on
\* failure; on failure header is as it was before the call, on success it
\* is the parsed tree.
C16_LoadCallsBackOnce ==
    \A form \in HeaderForms, wellFormed \in BOOLEAN, fetched \in BOOLEAN :
        LET hd == HeaderOf(form, wellFormed \/ form = "object",
                           IF form = "object" THEN header ELSE JsonStringify(header))
            r == Load(hd, fetched)
            failure == (form = "brick" /\ ~fetched) \/ ~hd.wellFormed
        IN  /\ r.callbacks = 1
            /\ r.thrown = "none"
            /\ failure => (r.err # "none" /\ r.header = hd)
            /\ ~failure =>
                   /\ r.err = "none"
                   /\ r.header = HeaderOf("object", TRUE,
                                          IF form = "object" THEN header
                                          ELSE JsonParseRevived(JsonStringify(header)))

\* C17: stat(p) gives {type: directory} for a Directory, {type: file} for a
\* File, and fails with NotFound for every path at which no node is.
C17_StatOfMissingPathNotFound ==
    \A p \in PathInputs :
        LET r == Stat(header, p)
        IN  /\ IsDirectoryNode(header, LocOf(p)) /\ GetDeepestNode(header, p) = LocOf(p)
                => r = [err |-> "none", val |-> "directory"]
            /\ IsFileNode(header, LocOf(p)) /\ GetDeepestNode(header, p) = LocOf(p)
                => r = [err |-> "none", val |-> "file"]
            /\ LocOf(p) \notin DOMAIN header => r.err = "NotFound"

\* A node is of exactly one kind.
OneKind(h, l) == h[l].hasItems # h[l].hasLinks

\* C18: every node of every reachable state is either a Directory (items,
\* no hashLinks) or a File (hashLinks, no items), and no call changes the
\* kind of a node that exists (for copy: of its destination).
C18_EveryNodeHasOneKind ==
    [][ \A l \in DOMAIN header' :
            /\ OneKind(header', l)
            /\ (l \in DOMAIN header /\ (last'.op # "copy" \/ l = LocOf(last'.path))) =>
                   /\ header'[l].hasItems = header[l].hasItems
                   /\ header'[l].hasLinks = header[l].hasLinks ]_vars

\* C19: getDeepestNode(p) gives the node reached from header by following
\* the segments of p one by one through items, or nothing; it never gives
\* a node located at another path.
C19_LookupIsExact ==
    \A p \in PathInputs : ExactLookup(header, p)

\* The call just made was a copy of a Directory to the destination recorded.
CopiedDirectory ==
    /\ last'.op = "copy"
    /\ \E src \in PathInputs :
           /\ GetDeepestNode(header, src) # NotFound
           /\ NodeIsDirectory(header, GetDeepestNode(header, src))
           /\ header' = Copy(header, src, last'.path, Now).h

\* The call just made emptied the Directory its path resolves to.
EmptiedDirectory(t) ==
    /\ last'.op \in {"delete", "emptyList", "addFileEntry"}
    /\ t = GetDeepestNode(header, last'.path)
    /\ t # NotFound
    /\ NodeIsDirectory(header, t)

\* C20 as claimed: a node present at p stays present at p after every
\* call, unless the call is a copy of a Directory to an ancestor of p.
C20_AsClaimed ==
    [][ \A l \in DOMAIN header :
            l \notin DOMAIN header' =>
                (CopiedDirectory /\ IsStrictPrefix(LocOf(last'.path), l)) ]_vars

\* C20 as amended: a node present at p stays present at p after every
\* call, unless the call empties a Directory above p: a copy of a Directory
\* to an ancestor of p, or a delete, emptyList or addFileEntry whose path
\* resolves to a Directory that is an ancestor of p.
C20_NodesStayUnlessAncestorEmptied ==
    [][ \A l \in DOMAIN header :
            l \notin DOMAIN header' =>
                \/ CopiedDirectory /\ IsStrictPrefix(LocOf(last'.path), l)
                \/ \E t \in DOMAIN header : EmptiedDirectory(t) /\ IsStrictPrefix(t, l) ]_vars

\* a delete has just tombstoned the node at a/b, and the node is still there
C20_Witness ==
    /\ last.op = "delete"
    /\ last.path = <<"a", "b">>
    /\ <<"a", "b">> \in DOMAIN header
    /\ GetDeepestNode(header, last.path) = <<"a", "b">>
    /\ NodeIsDeleted(header, <<"a", "b">>)

\* The node at loc of tree g is the node at loc of tree h brought back:
\* same kind, same metadata but for deletedAt and updatedAt, and neither it
\* nor any node above it, header included, is tombstoned.
Resurrected(h, g, loc) ==
    /\ loc \in DOMAIN g
    /\ g[loc].hasItems = h[loc].hasItems
    /\ g[loc].hasLinks = h[loc].hasLinks
    /\ \A k \in (DOMAIN h[loc].metadata) \ {"deletedAt", "updatedAt"} :
           k \in DOMAIN g[loc].metadata /\ g[loc].metadata[k] = h[loc].metadata[k]
    /\ \A l \in DOMAIN g : IsPrefix(l, loc) => ~NodeIsDeleted(g, l)

\* C21: a materializing call (add and createFile on a File, createFolder on
\* a Directory, copy to a destination of the source's kind) on a path whose
\* node exists and is tombstoned succeeds, clears deletedAt on that same
\* node, keeping its other metadata, and leaves neither the node nor any
\* node above it tombstoned.
C21_MaterializingResurrects ==
    \A p \in PathInputs, b \in BrickInputs :
        LET loc == LocOf(p)
        IN  (loc \in DOMAIN header /\ OneKind(header, loc) /\ NodeIsDeleted(header, loc)) =>
                /\ IsFileNode(header, loc) =>
                       /\ Add(header, p, b, Now).err = "none"
                       /\ Resurrected(header, Add(header, p, b, Now).h, loc)
                       /\ CreateFile(header, p, Now).err = "none"
                       /\ Resurrected(header, CreateFile(header, p, Now).h, loc)
                /\ IsDirectoryNode(header, loc) =>
                       /\ CreateFolder(header, p, Now).err = "none"
                       /\ Resurrected(header, CreateFolder(header, p, Now).h, loc)
                /\ \A src \in PathInputs :
                       LET s == GetDeepestNode(header, src)
                       IN  (/\ s = LocOf(src) /\ s # NotFound /\ OneKind(header, s)
                            /\ ~IsPrefix(s, loc) /\ ~IsPrefix(loc, s)
                            /\ header[s].hasItems = header[loc].hasItems) =>
                               /\ Copy(header, src, p, Now).err = "none"
                               /\ Resurrected(header, Copy(header, src, p, Now).h, loc)

\* C22: replaceFirstBrick(p, b) and replaceLastBrick(p, b) on a file with
\* a non-empty brick sequence change only the first (last) element; when
\* the sequence at p is empty (an empty, tombstoned or missing file) the
\* call leaves the set of nodes and their tombstone status unchanged.
C22_ReplaceChangesOneBrickOrNothing ==
    \A p \in PathInputs, b \in BrickInputs :
        LET loc == LocOf(p)
            f == ReplaceFirstBrick(header, p, b, Now)
            l == ReplaceLastBrick(header, p, b, Now)
            prev == header[loc].hashLinks
            untouched(g) == /\ DOMAIN g = DOMAIN header
                            /\ \A x \in DOMAIN header :
                                   NodeIsDeleted(g, x) = NodeIsDeleted(header, x)
        IN  /\ (IsFileNode(header, loc) /\ prev # <<>>) =>
                   /\ f.err = "none" /\ l.err = "none"
                   /\ f.h[loc].hashLinks = [prev EXCEPT ![1] = RawBrick(b)]
                   /\ l.h[loc].hashLinks = [prev EXCEPT ![Len(prev)] = RawBrick(b)]
            /\ (loc \notin DOMAIN header \/ (IsFileNode(header, loc) /\ prev = <<>>)) =>
                   /\ untouched(f.h)
                   /\ untouched(l.h)

\* C23: isEmpty(p) is true exactly when no node is at p, or the node is a
\* Directory without items, or a File without brick references.
C23_IsEmptyTellsEmptiness ==
    \A p \in PathInputs :
        LET loc == LocOf(p)
        IN  (ExactLookup(header, p) /\ (loc \in DOMAIN header => OneKind(header, loc))) =>
                IsEmpty(header, p) =
                    \/ loc \notin DOMAIN header
                    \/ IsDirectoryNode(header, loc) /\ ItemNames(header, loc) = {}
                    \/ IsFileNode(header, loc) /\ header[loc].hashLinks = <<>>

\* C25: a file-content call (add, addFileEntry, appendBricksToFile,
\* replaceFirstBrick, replaceLastBrick) on a path naming an existing
\* Directory leaves the directory's items as they were and attaches no
\* brick reference to it.
C25_FileCallsLeaveDirectoriesAlone ==
    \A p \in PathInputs, b \in BrickInputs, bs \in BrickSeqInputs :
        LET loc == LocOf(p)
            calls == << Add(header, p, b, Now).h,
                        AddFileEntry(header, p, bs, Now).h,
                        AppendBricksToFile(header, p, bs, Now).h,
                        ReplaceFirstBrick(header, p, b, Now).h,
                        ReplaceLastBrick(header, p, b, Now).h >>
        IN  (IsDirectoryNode(header, loc) /\ GetDeepestNode(header, p) = loc) =>
                \A i \in 1..5 :
                    /\ Content(calls[i], loc) = Content(header, loc)
                    /\ calls[i][loc].hasLinks = header[loc].hasLinks

\* The errors raised because of the kind of a node that is on the path.
KindErrors == { "TypeError", "FolderInFile", "AlreadyExists" }

\* C26: when add, createFile, createFolder or copy fails because of the
\* kind of an existing node on the path, the tree is as it was before the
\* call.
C26_KindFailuresLeaveTreeUnchanged ==
    \A p \in PathInputs, b \in BrickInputs :
        LET calls == << Add(header, p, b, Now), CreateFile(header, p, Now),
                        CreateFolder(header, p, Now) >>
        IN  /\ \A i \in 1..3 : calls[i].err \in KindErrors => calls[i].h = header
            /\ \A src \in PathInputs :
                   Copy(header, src, p, Now).err \in KindErrors =>
                       Copy(header, src, p, Now).h = header

\* The short letters of the flags of a command line, in argument order, and
\* the flags and parameters it supplies.
IsFlagArg(arg) == arg.kind # "param"
RECURSIVE ShortLetters(_)
ShortLetters(args) ==
    IF args = <<>> THEN ""
    ELSE (IF Head(args).kind = "short" THEN Concat(Head(args).letters)
          ELSE IF Head(args).kind = "long" THEN Slice1(BaseName(Long(Head(args).name)))
          ELSE "") \o ShortLetters(Tail(args))
SuppliedFlags(args) == { FlagOf(args[i]) : i \in { k \in 1..Len(args) : IsFlagArg(args[k]) } }
SuppliedParameters(args) ==
    { args[i].value : i \in { k \in 1..Len(args) : args[k].kind = "param" \/ args[k].hasValue } }
Range(seq) == { seq[i] : i \in 1..Len(seq) }
ValidationErrors == {"NoFlags", "WrongFlagOrder", "TooFewParameters", "TooManyParameters"}

\* C27: constructing a CommandHandler from registered flags (short clusters,
\* long flags with or without =value) and positional parameters either
\* succeeds, with getCommand() the short letters of all supplied flags in
\* argument order and getFlags() and getParameters() holding every supplied
\* flag and parameter, or fails with one of the four validation errors; it
\* never fails in another way and never drops a flag.
C27_ParsesOrRejectsWithValidationError ==
    /\ handler.outcome \in {"none", "ok"} \cup ValidationErrors
    /\ handler.outcome = "ok" =>
          /\ handler.command = ShortLetters(handler.argv)
          /\ SuppliedFlags(handler.argv) \subseteq Range(handler.flags)
          /\ SuppliedParameters(handler.argv) \subseteq Range(handler.parameters)

====
